---- MODULE Spec2Model ----
(***************************************************************************)
(* Graceful shutdown of an HTTP server: runHandlerWithGracefulShutdown     *)
(* (three-duration variant), the serving goroutine it starts, and the      *)
(* request handlers it serves.  Time is counted in whole seconds, the unit *)
(* of all three options and of the handlers' sleeps.                       *)
(***************************************************************************)
EXTENDS Integers, Sequences, FiniteSets, TLC

VARIABLES
    program,            \* the main that runs: the source file it is in
    opts,               \* options: the three durations, in seconds
    flagSupplied,       \* isSignalCatched != nil
    isSignalCatched,    \* *atomic.Bool
    pc,                 \* where the control path of runHandlerWithGracefulShutdown is
    trace,              \* the steps the control path has executed, in order
    ret,                \* <<>> until the function returns, then <<exit code>>
    retAt,              \* the return statement taken ("none" until then)
    now,                \* the clock, in seconds: since the start, and since the
                        \* signal once ctxSignal is done
    sleepUntil,         \* when the running time.Sleep returns
    ctxTimeoutDeadline, \* deadline of ctxTimeout
    ctxSignalDone,      \* ctxSignal.Done() is closed
    notifying,          \* signal.NotifyContext is still registered (stop not called)
    tCatched,           \* when isSignalCatched was stored
    ctxBaseRequest,     \* "active" | "canceled"
    cancelLog,          \* the call sites of cancelCtxBaseRequest, in order
    srv,                \* where the serving goroutine is
    inShutdown,         \* http.Server: Shutdown or Close was called
    listener,           \* "open" | "closed"
    chServeIsDone,      \* "open" | "closed"
    shutdownCalls,      \* calls of server.Shutdown
    closeCalls,         \* calls of server.Close
    conns,              \* the connections of the server
    hist                \* what an observer of the run has seen (read by no action)

vars == <<program, opts, flagSupplied, isSignalCatched, pc, trace, ret, retAt, now,
          sleepUntil, ctxTimeoutDeadline, ctxSignalDone, notifying,
          tCatched, ctxBaseRequest, cancelLog, srv, inShutdown, listener,
          chServeIsDone, shutdownCalls, closeCalls, conns, hist>>

ctl == <<pc, trace, ret, retAt, sleepUntil, ctxTimeoutDeadline, tCatched,
         cancelLog, shutdownCalls, closeCalls>>

-----------------------------------------------------------------------------
(* Bounds of the model *)

\* the largest WaitSecondsUntilGracefulShutdownIsStarted
MaxWait == 1
\* the largest GracefulShutdownTimeoutSeconds
MaxDrain == 2
\* the largest ForcefullyRequestCancellationTimeoutSeconds
MaxGrace == 1
\* the connections the server accepts during one run
MaxConns == 1
\* the largest seconds parameter of GET /sleep
MaxSleep == 2
\* the seconds the clock may advance before a signal is delivered
MaxTime == 0

(* Program constants *)

shutodownGracefully == 0
\* faulty variant: the code the two-duration variants return for a failed drain
ExitCodeTwo == 2
shutodownForcefully == 1
\* GET /sleep_infinity sleeps this long, whatever its context does
SleepInfinitySeconds == 60

\* an option is an int: negative values are accepted
Durations(max) == (0 - 1)..max
Conns == 1..MaxConns

FreeConn == [st |-> "free", kind |-> "none", doneAt |-> 0, resp |-> "none"]

-----------------------------------------------------------------------------
Init ==
    /\ program = "part_001"
    /\ opts \in [WaitSecondsUntilGracefulShutdownIsStarted : Durations(MaxWait),
                 GracefulShutdownTimeoutSeconds : Durations(MaxDrain),
                 ForcefullyRequestCancellationTimeoutSeconds : Durations(MaxGrace)]
    /\ flagSupplied \in BOOLEAN
    /\ isSignalCatched = FALSE
    /\ pc = "select"
    /\ trace = <<>>
    /\ ret = <<>>
    /\ retAt = "none"
    /\ now = 0
    /\ sleepUntil = 0
    /\ ctxTimeoutDeadline = 0
    /\ ctxSignalDone = FALSE
    /\ notifying = TRUE
    /\ tCatched = 0
    /\ ctxBaseRequest = "active"
    /\ cancelLog = <<>>
    /\ srv = "ListenAndServe"
    /\ inShutdown = FALSE
    /\ listener = "open"
    /\ chServeIsDone = "open"
    /\ shutdownCalls = 0
    /\ closeCalls = 0
    /\ conns = [c \in Conns |-> FreeConn]
    /\ hist = [busySinceSignal |-> FALSE, overrun |-> "no", second |-> "none"]

-----------------------------------------------------------------------------
\* the control path has executed step e
Has(e) == \E i \in 1..Len(trace) : trace[i] = e

-----------------------------------------------------------------------------
(* The accept loop and the request handlers: GET /sleep and                *)
(* GET /sleep_infinity of testHandler, GET /health of newHandler           *)

Active(c) == conns[c].st = "active"

\* http.Server.closeIdleConns takes a connection that was accepted and has not
\* sent a request for idle once it is more than this many seconds old
StateNewSeconds == 5

\* connection c was accepted (at doneAt), has not sent its request, and is old
\* enough to count as idle
Stale(c) == conns[c].st = "new" /\ conns[c].doneAt + StateNewSeconds < now

\* what http.Server.closeIdleConns returns: no connection is busy
Quiescent == \A c \in Conns : ~Active(c) /\ (conns[c].st = "new" => Stale(c))

\* the slot the next accepted connection takes
NextConn(c) == conns[c].st = "free" /\ \A d \in 1..(c - 1) : conns[d].st # "free"

\* GET /sleep?seconds=n: a negative or unparsable n counts as 0
SleepSeconds(n) == IF n < 0 THEN 0 ELSE n

\* the server accepts a connection and dispatches GET /sleep?seconds=n on it;
\* the handler starts its timer
AcceptSleep(c, n) ==
    /\ srv = "ListenAndServe"
    /\ listener = "open"
    /\ NextConn(c)
    /\ conns' = [conns EXCEPT ![c] = [st |-> "active", kind |-> "sleep",
                                      doneAt |-> now + SleepSeconds(n),
                                      resp |-> "none"]]
    /\ hist' = [hist EXCEPT !.busySinceSignal = @ \/ Has("signal")]
    /\ UNCHANGED <<program, opts, flagSupplied, isSignalCatched, ctl, now, ctxSignalDone,
                   notifying, ctxBaseRequest, srv, inShutdown, listener,
                   chServeIsDone>>

\* the server accepts a connection and dispatches GET /sleep_infinity on it
AcceptSleepInfinity(c) ==
    /\ srv = "ListenAndServe"
    /\ listener = "open"
    /\ NextConn(c)
    /\ conns' = [conns EXCEPT ![c] = [st |-> "active", kind |-> "sleep_infinity",
                                      doneAt |-> now + SleepInfinitySeconds,
                                      resp |-> "none"]]
    /\ hist' = [hist EXCEPT !.busySinceSignal = @ \/ Has("signal")]
    /\ UNCHANGED <<program, opts, flagSupplied, isSignalCatched, ctl, now, ctxSignalDone,
                   notifying, ctxBaseRequest, srv, inShutdown, listener,
                   chServeIsDone>>

\* the server accepts a connection; its request has not arrived yet
AcceptConn(c) ==
    /\ srv = "ListenAndServe"
    /\ listener = "open"
    /\ NextConn(c)
    /\ conns' = [conns EXCEPT ![c] = [st |-> "new", kind |-> "none",
                                      doneAt |-> now, resp |-> "none"]]
    /\ UNCHANGED <<program, opts, flagSupplied, isSignalCatched, ctl, now, ctxSignalDone,
                   notifying, ctxBaseRequest, srv, inShutdown, listener,
                   chServeIsDone, hist>>

\* GET /sleep?seconds=n arrives on a connection accepted before, and is
\* dispatched: the request context is derived from the base context as it is
\* now, and the handler starts its timer
DispatchSleep(c, n) ==
    /\ conns[c].st = "new"
    /\ conns' = [conns EXCEPT ![c] = [st |-> "active", kind |-> "sleep",
                                      doneAt |-> now + SleepSeconds(n),
                                      resp |-> "none"]]
    /\ hist' = [hist EXCEPT !.busySinceSignal = @ \/ Has("signal")]
    /\ UNCHANGED <<program, opts, flagSupplied, isSignalCatched, ctl, now, ctxSignalDone,
                   notifying, ctxBaseRequest, srv, inShutdown, listener,
                   chServeIsDone>>

\* faulty variant: the health check ignores the flag
HealthResponseAlwaysOk == "ok"

\* GET /health of newHandler, which was given the pointer the control path
\* stores to (or nil, like the control path): 503 when the flag is there and
\* loads true, 200 "ok" otherwise
HealthResponse ==
    IF flagSupplied /\ isSignalCatched THEN "unavailable" ELSE "ok"

\* faulty variant: the health check resets the flag it reads
ServeHealthSwappingFlag(c) ==
    /\ srv = "ListenAndServe"
    /\ listener = "open"
    /\ NextConn(c)
    /\ conns' = [conns EXCEPT ![c] = [st |-> "idle", kind |-> "health",
                                      doneAt |-> 0, resp |-> HealthResponse]]
    /\ isSignalCatched' = FALSE
    /\ UNCHANGED <<program, opts, flagSupplied, ctl, now, ctxSignalDone,
                   notifying, ctxBaseRequest, srv, inShutdown, listener,
                   chServeIsDone, hist>>

\* the server accepts a connection and dispatches GET /health on it; the
\* handler answers at once and the connection is idle again
ServeHealth(c) ==
    /\ srv = "ListenAndServe"
    /\ listener = "open"
    /\ NextConn(c)
    /\ conns' = [conns EXCEPT ![c] = [st |-> "idle", kind |-> "health",
                                      doneAt |-> 0, resp |-> HealthResponse]]
    /\ UNCHANGED <<program, opts, flagSupplied, isSignalCatched, ctl, now, ctxSignalDone,
                   notifying, ctxBaseRequest, srv, inShutdown, listener,
                   chServeIsDone, hist>>

\* GET /sleep, case <-timer.C, and GET /sleep_infinity after its time.Sleep:
\* the handler writes "ok" and returns
WriteOk(c) ==
    /\ Active(c)
    /\ now >= conns[c].doneAt
    /\ conns' = [conns EXCEPT ![c].st = "idle", ![c].resp = "ok", ![c].doneAt = 0]
    /\ UNCHANGED <<program, opts, flagSupplied, isSignalCatched, ctl, now, ctxSignalDone,
                   notifying, ctxBaseRequest, srv, inShutdown, listener,
                   chServeIsDone, hist>>

\* faulty variant: BaseContext is not set, the request contexts derive from
\* the background context
RequestContextOfBackground == FALSE

\* the request context, derived from the base context BaseContext returns
RequestContextDone == ctxBaseRequest = "canceled"

\* faulty variant: the handler answers "ok" when its context is cancelled
SleepCancelledWritesOk(c) ==
    /\ Active(c)
    /\ conns[c].kind = "sleep"
    /\ RequestContextDone
    /\ conns' = [conns EXCEPT ![c].st = "idle", ![c].resp = "ok", ![c].doneAt = 0]
    /\ UNCHANGED <<program, opts, flagSupplied, isSignalCatched, ctl, now, ctxSignalDone,
                   notifying, ctxBaseRequest, srv, inShutdown, listener,
                   chServeIsDone, hist>>

\* GET /sleep, case <-r.Context().Done(): the handler answers 503 and returns
SleepCancelled(c) ==
    /\ Active(c)
    /\ conns[c].kind = "sleep"
    /\ RequestContextDone
    /\ conns' = [conns EXCEPT ![c].st = "idle", ![c].resp = "unavailable",
                              ![c].doneAt = 0]
    /\ UNCHANGED <<program, opts, flagSupplied, isSignalCatched, ctl, now, ctxSignalDone,
                   notifying, ctxBaseRequest, srv, inShutdown, listener,
                   chServeIsDone, hist>>

\* a handler that can take a step now
HandlerReady ==
    \E c \in Conns :
        /\ Active(c)
        /\ \/ now >= conns[c].doneAt
           \/ conns[c].kind = "sleep" /\ RequestContextDone

-----------------------------------------------------------------------------
(* The serving goroutine: go func() { ... server.ListenAndServe() ... } *)

\* ListenAndServe returns.  After Shutdown or Close the error is
\* ErrServerClosed; before, it is what stopped the accept loop: a failure of
\* the listener, or ErrServerClosed when the server was closed from outside
\* the control path.  With a non-benign error the goroutine goes on to send it
\* on chServeIsDone, and waits for the receiver; otherwise it closes the
\* channel and ends.
ListenAndServeReturns(err) ==
    /\ srv = "ListenAndServe"
    /\ inShutdown => err = "ErrServerClosed"
    /\ srv' = IF err # "ErrServerClosed" THEN "send" ELSE "exited"
    /\ chServeIsDone' = IF err # "ErrServerClosed" THEN chServeIsDone ELSE "closed"
    /\ listener' = "closed"
    /\ inShutdown' = (inShutdown \/ err = "ErrServerClosed")
    /\ UNCHANGED <<program, opts, flagSupplied, isSignalCatched, ctl, now, ctxSignalDone,
                   notifying, ctxBaseRequest, conns, hist>>

\* the error was received: close(chServeIsDone)
CloseChServeIsDone ==
    /\ srv = "close"
    /\ srv' = "exited"
    /\ chServeIsDone' = "closed"
    /\ UNCHANGED <<program, opts, flagSupplied, isSignalCatched, ctl, now, ctxSignalDone,
                   notifying, ctxBaseRequest, inShutdown, listener, conns, hist>>

-----------------------------------------------------------------------------
(* The termination signal source *)

\* the connections with the clock set back by t seconds
Rebased(t) ==
    [c \in Conns |-> IF conns[c].st \in {"active", "new"}
                     THEN [conns[c] EXCEPT !.doneAt = @ - t]
                     ELSE conns[c]]

\* a signal arrives, or the parent context is cancelled with a cause; the
\* clock counts from this instant on
Signal ==
    /\ notifying
    /\ ~ctxSignalDone
    /\ ctxSignalDone' = TRUE
    /\ now' = 0
    /\ conns' = Rebased(now)
    /\ UNCHANGED <<program, opts, flagSupplied, isSignalCatched, ctl, notifying,
                   ctxBaseRequest, srv, inShutdown, listener, chServeIsDone, hist>>

\* what becomes of a signal delivered now: while signal.NotifyContext is
\* registered it goes to its channel, where nothing reads it once ctxSignal is
\* done; after stop() the program does not receive it and the default
\* disposition of the signal applies
Disposition == IF notifying THEN "swallowed" ELSE "default"

\* one more termination signal is delivered after the first.  The model
\* follows the function for as long as the process runs.
SignalAgain ==
    /\ ctxSignalDone
    /\ pc # "done"
    /\ hist.second = "none"
    /\ hist' = [hist EXCEPT !.second = Disposition]
    /\ UNCHANGED <<program, opts, flagSupplied, isSignalCatched, ctl, now, ctxSignalDone,
                   notifying, ctxBaseRequest, srv, inShutdown, listener,
                   chServeIsDone, conns>>

-----------------------------------------------------------------------------
(* The control path of runHandlerWithGracefulShutdown *)

\* faulty variant: defer cancelCtxBaseRequest() is missing
ReturnLeakingBaseContext(code, at, steps) ==
    /\ ret' = <<code>>
    /\ retAt' = at
    /\ pc' = "done"
    /\ trace' = trace \o steps \o <<"return">>
    /\ notifying' = FALSE
    /\ ctxSignalDone' = TRUE
    /\ UNCHANGED <<ctxBaseRequest, cancelLog>>

\* a return statement, and the deferred calls it runs: cancel(), stop(),
\* cancelCtxBaseRequest()
Return(code, at, steps) ==
    /\ ret' = <<code>>
    /\ retAt' = at
    /\ pc' = "done"
    /\ trace' = trace \o steps \o <<"return">>
    /\ notifying' = FALSE
    /\ ctxSignalDone' = TRUE
    /\ ctxBaseRequest' = "canceled"
    /\ cancelLog' = Append(cancelLog, "defer")

\* faulty variant: the error branch of the select does not return
SelectServeErrFallsThrough ==
    /\ pc = "select"
    /\ srv = "send"
    /\ srv' = "close"
    /\ pc' = "stop"
    /\ trace' = Append(trace, "serve_err")
    /\ UNCHANGED <<program, opts, flagSupplied, isSignalCatched, ret, retAt, now, sleepUntil,
                   ctxTimeoutDeadline, ctxSignalDone, notifying, tCatched,
                   ctxBaseRequest, cancelLog, inShutdown, listener, chServeIsDone,
                   shutdownCalls, closeCalls, conns, hist>>

\* select, case err := <-chServeIsDone with err != nil: return 1
SelectServeErr ==
    /\ pc = "select"
    /\ srv = "send"
    /\ srv' = "close"
    /\ Return(1, "L129", <<"serve_err">>)
    /\ UNCHANGED <<program, opts, flagSupplied, isSignalCatched, now, sleepUntil,
                   ctxTimeoutDeadline, tCatched, inShutdown, listener,
                   chServeIsDone, shutdownCalls, closeCalls, conns, hist>>

\* faulty variant: a server that stopped by itself counts as a failure
SelectServeClosedReturnsOne ==
    /\ pc = "select"
    /\ chServeIsDone = "closed"
    /\ Return(1, "L138", <<"serve_closed">>)
    /\ UNCHANGED <<program, opts, flagSupplied, isSignalCatched, now, sleepUntil,
                   ctxTimeoutDeadline, tCatched, srv, inShutdown, listener,
                   chServeIsDone, shutdownCalls, closeCalls, conns, hist>>

\* select, case err := <-chServeIsDone on the closed channel (err == nil): return 0
SelectServeClosed ==
    /\ pc = "select"
    /\ chServeIsDone = "closed"
    /\ Return(0, "L138", <<"serve_closed">>)
    /\ UNCHANGED <<program, opts, flagSupplied, isSignalCatched, now, sleepUntil,
                   ctxTimeoutDeadline, tCatched, srv, inShutdown, listener,
                   chServeIsDone, shutdownCalls, closeCalls, conns, hist>>

\* a receive from chServeIsDone would not block: the serving goroutine is
\* sending its error, or has closed the channel
ServeEndReady == srv = "send" \/ chServeIsDone = "closed"

\* faulty variant: the signal is looked at only when chServeIsDone is not ready
SelectSignalAfterServe ==
    /\ pc = "select"
    /\ ctxSignalDone
    /\ ~ServeEndReady
    /\ pc' = "stop"
    /\ trace' = Append(trace, "signal")
    /\ hist' = [hist EXCEPT !.busySinceSignal = ~Quiescent]
    /\ UNCHANGED <<program, opts, flagSupplied, isSignalCatched, ret, retAt, now, sleepUntil,
                   ctxTimeoutDeadline, ctxSignalDone, notifying, tCatched,
                   ctxBaseRequest, cancelLog, srv, inShutdown, listener,
                   chServeIsDone, shutdownCalls, closeCalls, conns>>

\* select, case <-ctxSignal.Done()
SelectSignal ==
    /\ pc = "select"
    /\ ctxSignalDone
    /\ pc' = "stop"
    /\ trace' = Append(trace, "signal")
    /\ hist' = [hist EXCEPT !.busySinceSignal = ~Quiescent]
    /\ UNCHANGED <<program, opts, flagSupplied, isSignalCatched, ret, retAt, now, sleepUntil,
                   ctxTimeoutDeadline, ctxSignalDone, notifying, tCatched,
                   ctxBaseRequest, cancelLog, srv, inShutdown, listener,
                   chServeIsDone, shutdownCalls, closeCalls, conns>>

\* faulty variant: the store of the flag is missing
AfterStopSkipsStore == "wait"

\* the statement that follows stop(): the store of the flag
AfterStop == "store"

\* faulty variant: the call of stop() before the sleep is missing, the deferred
\* one is all there is
StopOnlyDeferred ==
    /\ pc = "stop"
    /\ pc' = AfterStop
    /\ trace' = Append(trace, "stop")
    /\ UNCHANGED <<program, opts, flagSupplied, isSignalCatched, ret, retAt, now, sleepUntil,
                   ctxTimeoutDeadline, ctxSignalDone, tCatched, notifying,
                   ctxBaseRequest, cancelLog, srv, inShutdown, listener,
                   chServeIsDone, shutdownCalls, closeCalls, conns, hist>>

\* stop(): the signals are no longer caught, and ctxSignal is done
Stop ==
    /\ pc = "stop"
    /\ notifying' = FALSE
    /\ pc' = AfterStop
    /\ trace' = Append(trace, "stop")
    /\ UNCHANGED <<program, opts, flagSupplied, isSignalCatched, ret, retAt, now, sleepUntil,
                   ctxTimeoutDeadline, ctxSignalDone, tCatched,
                   ctxBaseRequest, cancelLog, srv, inShutdown, listener,
                   chServeIsDone, shutdownCalls, closeCalls, conns, hist>>

\* what isSignalCatched holds after: if isSignalCatched != nil { isSignalCatched.Store(true) }
StoredFlag == IF flagSupplied THEN TRUE ELSE isSignalCatched

\* faulty variant: the listener is closed as soon as the flag is stored
StoreFlagClosingListener ==
    /\ pc = "store"
    /\ isSignalCatched' = StoredFlag
    /\ tCatched' = now
    /\ trace' = Append(trace, "store")
    /\ pc' = "wait"
    /\ listener' = "closed"
    /\ UNCHANGED <<program, opts, flagSupplied, ret, retAt, now, sleepUntil,
                   ctxTimeoutDeadline, ctxSignalDone, notifying,
                   ctxBaseRequest, cancelLog, srv, inShutdown,
                   chServeIsDone, shutdownCalls, closeCalls, conns, hist>>

\* if isSignalCatched != nil { isSignalCatched.Store(true) }
StoreFlag ==
    /\ pc = "store"
    /\ isSignalCatched' = StoredFlag
    /\ tCatched' = now
    /\ trace' = Append(trace, "store")
    /\ pc' = "wait"
    /\ UNCHANGED <<program, opts, flagSupplied, ret, retAt, now, sleepUntil,
                   ctxTimeoutDeadline, ctxSignalDone, notifying,
                   ctxBaseRequest, cancelLog, srv, inShutdown, listener,
                   chServeIsDone, shutdownCalls, closeCalls, conns, hist>>

\* faulty variant: the first sleep takes the drain timeout for its duration
BeginWaitWrongOption ==
    /\ pc = "wait"
    /\ sleepUntil' = now + opts.GracefulShutdownTimeoutSeconds
    /\ pc' = "delaying"
    /\ trace' = Append(trace, "sleep_wait")
    /\ UNCHANGED <<program, opts, flagSupplied, isSignalCatched, ret, retAt, now,
                   ctxTimeoutDeadline, ctxSignalDone, notifying, tCatched,
                   ctxBaseRequest, cancelLog, srv, inShutdown, listener,
                   chServeIsDone, shutdownCalls, closeCalls, conns, hist>>

\* time.Sleep(WaitSecondsUntilGracefulShutdownIsStarted seconds) begins
BeginWait ==
    /\ pc = "wait"
    /\ sleepUntil' = now + opts.WaitSecondsUntilGracefulShutdownIsStarted
    /\ pc' = "delaying"
    /\ trace' = Append(trace, "sleep_wait")
    /\ UNCHANGED <<program, opts, flagSupplied, isSignalCatched, ret, retAt, now,
                   ctxTimeoutDeadline, ctxSignalDone, notifying, tCatched,
                   ctxBaseRequest, cancelLog, srv, inShutdown, listener,
                   chServeIsDone, shutdownCalls, closeCalls, conns, hist>>

\* faulty variant: the sleep ends at the tick it was set for, which never
\* comes when that tick is in the past
EndWaitOnTheTick ==
    /\ pc = "delaying"
    /\ now = sleepUntil
    /\ pc' = "shutdown"
    /\ UNCHANGED <<program, opts, flagSupplied, isSignalCatched, trace, ret, retAt, now,
                   sleepUntil, ctxTimeoutDeadline, ctxSignalDone, notifying,
                   tCatched, ctxBaseRequest, cancelLog, srv, inShutdown, listener,
                   chServeIsDone, shutdownCalls, closeCalls, conns, hist>>

\* the sleep returns (at once when the duration is not positive)
EndWait ==
    /\ pc = "delaying"
    /\ now >= sleepUntil
    /\ pc' = "shutdown"
    /\ UNCHANGED <<program, opts, flagSupplied, isSignalCatched, trace, ret, retAt, now,
                   sleepUntil, ctxTimeoutDeadline, ctxSignalDone, notifying,
                   tCatched, ctxBaseRequest, cancelLog, srv, inShutdown, listener,
                   chServeIsDone, shutdownCalls, closeCalls, conns, hist>>

\* http.Server.closeIdleConns: the idle connections are closed
CloseIdleConns ==
    [c \in Conns |-> IF conns[c].st = "idle" \/ Stale(c)
                     THEN [conns[c] EXCEPT !.st = "closed"]
                     ELSE conns[c]]

\* where server.Shutdown is after closeIdleConns: it returns nil when no
\* connection is left busy, and waits in its select otherwise
AfterPoll == IF Quiescent THEN "shutdownOk" ELSE "draining"

\* the steps server.Shutdown adds to t with this inspection
Polled(t) == IF Quiescent THEN Append(t, "shutdown_ok") ELSE t

\* what an observer sees of the connections at clock t, once ctxTimeout with
\* deadline d is running out while server.Shutdown waits: "yes" when a request
\* in flight still has work to do (and from then on), "tie" when the requests
\* in flight are all due at this very instant, "no" when the deadline is ahead
\* or nothing is in flight
Overrun(t, d) ==
    IF hist.overrun = "yes" THEN "yes"
    ELSE IF t < d \/ Quiescent THEN "no"
    ELSE IF \E c \in Conns : Active(c) /\ conns[c].doneAt > t THEN "yes"
    ELSE "tie"

\* faulty variant: server.Shutdown leaves the listener open
CallShutdownStillListening ==
    /\ pc = "shutdown"
    /\ ctxTimeoutDeadline' = now + opts.GracefulShutdownTimeoutSeconds
    /\ shutdownCalls' = shutdownCalls + 1
    /\ conns' = CloseIdleConns
    /\ pc' = AfterPoll
    /\ trace' = Polled(Append(trace, "shutdown"))
    /\ hist' = [hist EXCEPT !.overrun = Overrun(now, ctxTimeoutDeadline')]
    /\ UNCHANGED <<program, opts, flagSupplied, isSignalCatched, ret, retAt, now, sleepUntil,
                   ctxSignalDone, notifying, tCatched, ctxBaseRequest,
                   cancelLog, srv, chServeIsDone, closeCalls, inShutdown, listener>>

\* ctxTimeout is made and server.Shutdown(ctxTimeout) is called: the listener is
\* closed and the connections are inspected a first time
CallShutdown ==
    /\ pc = "shutdown"
    /\ ctxTimeoutDeadline' = now + opts.GracefulShutdownTimeoutSeconds
    /\ inShutdown' = TRUE
    /\ listener' = "closed"
    /\ shutdownCalls' = shutdownCalls + 1
    /\ conns' = CloseIdleConns
    /\ pc' = AfterPoll
    /\ trace' = Polled(Append(trace, "shutdown"))
    /\ hist' = [hist EXCEPT !.overrun = Overrun(now, ctxTimeoutDeadline')]
    /\ UNCHANGED <<program, opts, flagSupplied, isSignalCatched, ret, retAt, now, sleepUntil,
                   ctxSignalDone, notifying, tCatched, ctxBaseRequest,
                   cancelLog, srv, chServeIsDone, closeCalls>>

\* server.Shutdown, case <-timer.C: the connections are inspected again
ShutdownPoll ==
    /\ pc = "draining"
    /\ conns' = CloseIdleConns
    /\ pc' = AfterPoll
    /\ trace' = Polled(trace)
    /\ UNCHANGED <<program, opts, flagSupplied, isSignalCatched, ret, retAt, now,
                   sleepUntil, ctxTimeoutDeadline, ctxSignalDone, notifying,
                   tCatched, ctxBaseRequest, cancelLog, srv, inShutdown, listener,
                   chServeIsDone, shutdownCalls, closeCalls, hist>>

\* faulty variant: the timeout is a second short
CtxTimeoutDoneEarly == now >= ctxTimeoutDeadline - 1

\* faulty variant: server.Shutdown is given a context without a deadline
CtxTimeoutDoneNever == FALSE

\* faulty variant: a timeout of zero seconds stands for no timeout
CtxTimeoutDoneUnlessZero ==
    opts.GracefulShutdownTimeoutSeconds # 0 /\ now >= ctxTimeoutDeadline

\* ctxTimeout.Done() is closed
CtxTimeoutDone == now >= ctxTimeoutDeadline

\* server.Shutdown, case <-ctx.Done(): it returns ctx.Err()
ShutdownCtxDone ==
    /\ pc = "draining"
    /\ CtxTimeoutDone
    /\ pc' = "shutdownErr"
    /\ trace' = Append(trace, "shutdown_err")
    /\ UNCHANGED <<program, opts, flagSupplied, isSignalCatched, ret, retAt, now,
                   sleepUntil, ctxTimeoutDeadline, ctxSignalDone, notifying,
                   tCatched, ctxBaseRequest, cancelLog, srv, inShutdown, listener,
                   chServeIsDone, shutdownCalls, closeCalls, conns, hist>>

\* faulty variant: the server is closed on the graceful path too
ReturnGracefullyClosing ==
    /\ pc = "shutdownOk"
    /\ closeCalls' = closeCalls + 1
    /\ Return(shutodownGracefully, "L184", <<"close">>)
    /\ UNCHANGED <<program, opts, flagSupplied, isSignalCatched, now, sleepUntil,
                   ctxTimeoutDeadline, tCatched, srv, inShutdown, listener,
                   chServeIsDone, shutdownCalls, conns, hist>>

\* err == nil: return shutodownGracefully
ReturnGracefully ==
    /\ pc = "shutdownOk"
    /\ Return(shutodownGracefully, "L184", <<>>)
    /\ UNCHANGED <<program, opts, flagSupplied, isSignalCatched, now, sleepUntil,
                   ctxTimeoutDeadline, tCatched, srv, inShutdown, listener,
                   chServeIsDone, shutdownCalls, closeCalls, conns, hist>>

\* faulty variant: the call of cancelCtxBaseRequest is missing
CancelRequestsForgotten ==
    /\ pc = "shutdownErr"
    /\ pc' = "force"
    /\ trace' = Append(trace, "cancel")
    /\ UNCHANGED <<program, opts, flagSupplied, isSignalCatched, ret, retAt, now, sleepUntil,
                   ctxTimeoutDeadline, ctxSignalDone, notifying, tCatched,
                   ctxBaseRequest, cancelLog, srv, inShutdown, listener,
                   chServeIsDone, shutdownCalls, closeCalls, conns, hist>>

\* err != nil: cancelCtxBaseRequest()
CancelRequests ==
    /\ pc = "shutdownErr"
    /\ ctxBaseRequest' = "canceled"
    /\ cancelLog' = Append(cancelLog, "L170")
    /\ pc' = "force"
    /\ trace' = Append(trace, "cancel")
    /\ UNCHANGED <<program, opts, flagSupplied, isSignalCatched, ret, retAt, now, sleepUntil,
                   ctxTimeoutDeadline, ctxSignalDone, notifying, tCatched,
                   srv, inShutdown, listener, chServeIsDone, shutdownCalls,
                   closeCalls, conns, hist>>

\* time.Sleep(ForcefullyRequestCancellationTimeoutSeconds seconds) begins
BeginForceSleep ==
    /\ pc = "force"
    /\ sleepUntil' = now + opts.ForcefullyRequestCancellationTimeoutSeconds
    /\ pc' = "forceCancelling"
    /\ trace' = Append(trace, "sleep_force")
    /\ UNCHANGED <<program, opts, flagSupplied, isSignalCatched, ret, retAt, now,
                   ctxTimeoutDeadline, ctxSignalDone, notifying, tCatched,
                   ctxBaseRequest, cancelLog, srv, inShutdown, listener,
                   chServeIsDone, shutdownCalls, closeCalls, conns, hist>>

\* faulty variant: the drain is tried again after the grace period
AfterForceSleepRetries == "shutdown"

\* the statement that follows the second sleep: server.Close()
AfterForceSleep == "close"

\* faulty variant: the grace period is not waited for
EndForceSleepAtOnce ==
    /\ pc = "forceCancelling"
    /\ pc' = AfterForceSleep
    /\ UNCHANGED <<program, opts, flagSupplied, isSignalCatched, trace, ret, retAt, now,
                   sleepUntil, ctxTimeoutDeadline, ctxSignalDone, notifying,
                   tCatched, ctxBaseRequest, cancelLog, srv, inShutdown, listener,
                   chServeIsDone, shutdownCalls, closeCalls, conns, hist>>

\* faulty variant: the grace period ends as soon as no request is in flight
EndForceSleepWhenIdle ==
    /\ pc = "forceCancelling"
    /\ now >= sleepUntil \/ Quiescent
    /\ pc' = AfterForceSleep
    /\ UNCHANGED <<program, opts, flagSupplied, isSignalCatched, trace, ret, retAt, now,
                   sleepUntil, ctxTimeoutDeadline, ctxSignalDone, notifying,
                   tCatched, ctxBaseRequest, cancelLog, srv, inShutdown, listener,
                   chServeIsDone, shutdownCalls, closeCalls, conns, hist>>

\* the sleep returns
EndForceSleep ==
    /\ pc = "forceCancelling"
    /\ now >= sleepUntil
    /\ pc' = AfterForceSleep
    /\ UNCHANGED <<program, opts, flagSupplied, isSignalCatched, trace, ret, retAt, now,
                   sleepUntil, ctxTimeoutDeadline, ctxSignalDone, notifying,
                   tCatched, ctxBaseRequest, cancelLog, srv, inShutdown, listener,
                   chServeIsDone, shutdownCalls, closeCalls, conns, hist>>

\* http.Server.Close: every connection is closed, whatever its state
CloseAllConns ==
    [c \in Conns |-> IF conns[c].st \in {"active", "idle", "new"}
                     THEN [conns[c] EXCEPT !.st = "closed"]
                     ELSE conns[c]]

\* server.Close()
CloseServer ==
    /\ pc = "close"
    /\ inShutdown' = TRUE
    /\ listener' = "closed"
    /\ conns' = CloseAllConns
    /\ closeCalls' = closeCalls + 1
    /\ pc' = "closed"
    /\ trace' = Append(trace, "close")
    /\ UNCHANGED <<program, opts, flagSupplied, isSignalCatched, ret, retAt, now, sleepUntil,
                   ctxTimeoutDeadline, ctxSignalDone, notifying, tCatched,
                   ctxBaseRequest, cancelLog, srv, chServeIsDone, shutdownCalls, hist>>

\* return shutodownForcefully
ReturnForcefully ==
    /\ pc = "closed"
    /\ Return(shutodownForcefully, "L180", <<>>)
    /\ UNCHANGED <<program, opts, flagSupplied, isSignalCatched, now, sleepUntil,
                   ctxTimeoutDeadline, tCatched, srv, inShutdown, listener,
                   chServeIsDone, shutdownCalls, closeCalls, conns, hist>>

-----------------------------------------------------------------------------
(* Time *)

\* the control path has a step that takes no time
ControlReady ==
    \/ pc \in {"stop", "store", "wait", "shutdown", "shutdownOk", "shutdownErr",
               "force", "close", "closed"}
    \/ pc = "select" /\ (ctxSignalDone \/ srv = "send" \/ chServeIsDone = "closed")
    \/ pc \in {"delaying", "forceCancelling"} /\ now >= sleepUntil
    \/ pc = "draining" /\ (Quiescent \/ CtxTimeoutDone)

\* the serving goroutine has a step that takes no time
ServeReady == srv = "close" \/ (srv = "ListenAndServe" /\ inShutdown)

\* a second passes: nothing that is due is still waiting to run.  Before a
\* signal the clock stops at MaxTime; after the return it is not followed.
Tick ==
    /\ pc # "done"
    /\ ~ControlReady
    /\ ~ServeReady
    /\ ~HandlerReady
    /\ ctxSignalDone \/ now < MaxTime
    /\ now' = now + 1
    /\ hist' = IF pc = "draining"
               THEN [hist EXCEPT !.overrun = Overrun(now', ctxTimeoutDeadline)]
               ELSE hist
    /\ UNCHANGED <<program, opts, flagSupplied, isSignalCatched, ctl, ctxSignalDone,
                   notifying, ctxBaseRequest, srv, inShutdown, listener,
                   chServeIsDone, conns>>

-----------------------------------------------------------------------------
Control ==
    \/ SelectServeErr
    \/ SelectServeClosed
    \/ SelectSignal
    \/ Stop
    \/ StoreFlag
    \/ BeginWait
    \/ EndWait
    \/ CallShutdown
    \/ ShutdownPoll
    \/ ShutdownCtxDone
    \/ ReturnGracefully
    \/ CancelRequests
    \/ BeginForceSleep
    \/ EndForceSleep
    \/ CloseServer
    \/ ReturnForcefully

Serve ==
    \/ \E err \in {"ErrServerClosed", "accept error"} : ListenAndServeReturns(err)
    \/ CloseChServeIsDone

Accept ==
    \/ \E c \in Conns, n \in (0 - 1)..MaxSleep : AcceptSleep(c, n)
    \/ \E c \in Conns : AcceptSleepInfinity(c)
    \/ \E c \in Conns : ServeHealth(c)

Handlers ==
    \/ \E c \in Conns : WriteOk(c)
    \/ \E c \in Conns : SleepCancelled(c)

Next == Control \/ Serve \/ Accept \/ Handlers \/ Signal \/ Tick

\* the runs with one termination signal at most
Spec == Init /\ [][Next]_vars

\* the runs in which one more signal may follow the first
SignalsSpec == Init /\ [][Next \/ SignalAgain]_vars

\* the runs in which a request may arrive some time after its connection was
\* accepted
DispatchSpec ==
    Init /\ [][\/ Next
               \/ \E c \in Conns : AcceptConn(c)
               \/ \E c \in Conns, n \in (0 - 1)..MaxSleep : DispatchSleep(c, n)]_vars

\* the scheduling the runtime guarantees: a goroutine that can run does run, a
\* timer that is due fires, and the clock advances
FairSpec ==
    /\ Spec
    /\ WF_vars(Control)
    /\ WF_vars(Handlers)
    /\ WF_vars(CloseChServeIsDone)
    /\ WF_vars(inShutdown /\ ListenAndServeReturns("ErrServerClosed"))
    /\ WF_vars(Tick)

-----------------------------------------------------------------------------
(* The mains of the examples, which begin the drain as soon as the signal   *)
(* is observed.  Two wait in a select like the function above: part_004     *)
(* (timeout from the environment) and the second file of ex0002/main.go     *)
(* ("ex0002 flag": options, flag, base context).  Two call ListenAndServe   *)
(* on the control path and server.Shutdown in a goroutine: part_002         *)
(* (timeout of 10 seconds) and the first file of ex0002/main.go             *)
(* ("ex0002 env").  Where a statement is the one of the function above, its *)
(* action is used as it is.  In the last two, pc is where the goroutine is  *)
(* and srv where the control path is.                                       *)

\* the largest ForcefullyHttpRequestCancellationTimeoutSeconds
MaxForce == 2

\* part_002: the timeout of server.Shutdown
waitSecondsUntilShutdown == 10

\* part_002: the seconds GET /sleep3secs and GET /sleep30secs sleep
FixedSleeps == {3, 30}

SelectPrograms == {"part_004", "ex0002 flag"}
GoroutinePrograms == {"part_002", "ex0002 env"}

\* the durations program p may be run with: the timeout of server.Shutdown,
\* and for "ex0002 flag" the wait that follows its failure
ExampleOpts(p) ==
    [WaitSecondsUntilGracefulShutdownIsStarted : {0},
     GracefulShutdownTimeoutSeconds :
         IF p = "part_002" THEN {waitSecondsUntilShutdown} ELSE Durations(MaxDrain),
     ForcefullyRequestCancellationTimeoutSeconds :
         IF p = "ex0002 flag" THEN Durations(MaxForce) ELSE {0}]

InitExamples ==
    /\ program \in SelectPrograms \cup GoroutinePrograms
    /\ opts \in ExampleOpts(program)
    /\ flagSupplied = (program = "ex0002 flag")
    /\ isSignalCatched = FALSE
    /\ pc = (IF program \in SelectPrograms THEN "select" ELSE "awaitSignal")
    /\ trace = <<>>
    /\ ret = <<>>
    /\ retAt = "none"
    /\ now = 0
    /\ sleepUntil = 0
    /\ ctxTimeoutDeadline = 0
    /\ ctxSignalDone = FALSE
    /\ notifying = TRUE
    /\ tCatched = 0
    /\ ctxBaseRequest = "active"
    /\ cancelLog = <<>>
    /\ srv = "ListenAndServe"
    /\ inShutdown = FALSE
    /\ listener = "open"
    /\ chServeIsDone = "open"
    /\ shutdownCalls = 0
    /\ closeCalls = 0
    /\ conns = [c \in Conns |-> FreeConn]
    /\ hist = [busySinceSignal |-> FALSE, overrun |-> "no", second |-> "none"]

(* gracefulshutdownexample.NewHandler, and the mux of part_002 *)

\* GET /sleep?seconds=n, GET /sleep3secs, GET /sleep30secs: the handler calls
\* time.Sleep, which no context interrupts, and then writes "ok"
AcceptTimeSleep(c, n) ==
    /\ srv = "ListenAndServe"
    /\ listener = "open"
    /\ NextConn(c)
    /\ conns' = [conns EXCEPT ![c] = [st |-> "active", kind |-> "time_sleep",
                                      doneAt |-> now + SleepSeconds(n),
                                      resp |-> "none"]]
    /\ hist' = [hist EXCEPT !.busySinceSignal = @ \/ Has("signal")]
    /\ UNCHANGED <<program, opts, flagSupplied, isSignalCatched, ctl, now, ctxSignalDone,
                   notifying, ctxBaseRequest, srv, inShutdown, listener,
                   chServeIsDone>>

\* the calls a handler makes on its http.ResponseWriter
Write(text) == [call |-> "Write", status |-> 0, text |-> text]
WriteHeader(code) == [call |-> "WriteHeader", status |-> code, text |-> ""]

\* the status the client receives: the first call sends the header, a Write
\* with 200; a WriteHeader that comes after is ignored
StatusSent(calls) ==
    IF calls # <<>> /\ calls[1].call = "WriteHeader" THEN calls[1].status ELSE 200

\* GET /health: the calls of the handler, in the order it makes them
ExampleHealthCalls ==
    IF flagSupplied /\ isSignalCatched
    THEN <<Write("graceful shutdown is started"), WriteHeader(503)>>
    ELSE <<Write("ok")>>

\* what the client receives from GET /health: "unavailable" for 503, and for
\* 200 the body, "ok" or "started"
ExampleHealthResponse ==
    IF StatusSent(ExampleHealthCalls) = 503 THEN "unavailable"
    ELSE IF ExampleHealthCalls[1].text = "ok" THEN "ok" ELSE "started"

\* the server accepts a connection and dispatches GET /health on it
ServeExampleHealth(c) ==
    /\ srv = "ListenAndServe"
    /\ listener = "open"
    /\ NextConn(c)
    /\ conns' = [conns EXCEPT ![c] = [st |-> "idle", kind |-> "health",
                                      doneAt |-> 0, resp |-> ExampleHealthResponse]]
    /\ UNCHANGED <<program, opts, flagSupplied, isSignalCatched, ctl, now, ctxSignalDone,
                   notifying, ctxBaseRequest, srv, inShutdown, listener,
                   chServeIsDone, hist>>

\* os.Exit(runHandlerWithGracefulShutdown(...)): the process ends, and the
\* connections that are still open are reset, answered or not
OsExit ==
    /\ ret # <<>>
    /\ \E c \in Conns : conns[c].st \in {"active", "idle", "new"}
    /\ conns' = [c \in Conns |-> IF conns[c].st \in {"active", "idle", "new"}
                                 THEN [conns[c] EXCEPT !.st = "reset"]
                                 ELSE conns[c]]
    /\ UNCHANGED <<program, opts, flagSupplied, isSignalCatched, ctl, now, ctxSignalDone,
                   notifying, ctxBaseRequest, srv, inShutdown, listener,
                   chServeIsDone, hist>>

(* part_004 *)

\* a return statement of part_004, and the deferred calls it runs: cancel(),
\* stop()
ReturnPlain(code, at, steps) ==
    /\ ret' = <<code>>
    /\ retAt' = at
    /\ pc' = "done"
    /\ trace' = trace \o steps \o <<"return">>
    /\ notifying' = FALSE
    /\ ctxSignalDone' = TRUE

\* select, case err := <-chTCPListenIsDone with err != nil: return 1
Part004SelectErr ==
    /\ pc = "select"
    /\ srv = "send"
    /\ srv' = "close"
    /\ ReturnPlain(1, "part_004:83", <<"serve_err">>)
    /\ UNCHANGED <<program, opts, flagSupplied, isSignalCatched, now, sleepUntil,
                   ctxTimeoutDeadline, tCatched, ctxBaseRequest, cancelLog,
                   inShutdown, listener, chServeIsDone, shutdownCalls,
                   closeCalls, conns, hist>>

\* select, case err := <-chTCPListenIsDone on the closed channel: return 0
Part004SelectClosed ==
    /\ pc = "select"
    /\ chServeIsDone = "closed"
    /\ ReturnPlain(0, "part_004:92", <<"serve_closed">>)
    /\ UNCHANGED <<program, opts, flagSupplied, isSignalCatched, now, sleepUntil,
                   ctxTimeoutDeadline, tCatched, ctxBaseRequest, cancelLog, srv,
                   inShutdown, listener, chServeIsDone, shutdownCalls,
                   closeCalls, conns, hist>>

\* stop(), the last statement of the signal case: ctxTimeout is made next
Part004Stop ==
    /\ pc = "stop"
    /\ notifying' = FALSE
    /\ pc' = "shutdown"
    /\ trace' = Append(trace, "stop")
    /\ UNCHANGED <<program, opts, flagSupplied, isSignalCatched, ret, retAt, now,
                   sleepUntil, ctxTimeoutDeadline, ctxSignalDone, tCatched,
                   ctxBaseRequest, cancelLog, srv, inShutdown, listener,
                   chServeIsDone, shutdownCalls, closeCalls, conns, hist>>

\* faulty variant: a failed server.Shutdown is reported with the code of a
\* failed listener
Part004ReturnTwoAsOne ==
    /\ pc = "shutdownErr"
    /\ ReturnPlain(1, "part_004:118", <<>>)
    /\ UNCHANGED <<program, opts, flagSupplied, isSignalCatched, now, sleepUntil,
                   ctxTimeoutDeadline, tCatched, ctxBaseRequest, cancelLog, srv,
                   inShutdown, listener, chServeIsDone, shutdownCalls,
                   closeCalls, conns, hist>>

\* server.Shutdown returned an error: return 2
Part004ReturnTwo ==
    /\ pc = "shutdownErr"
    /\ ReturnPlain(2, "part_004:118", <<>>)
    /\ UNCHANGED <<program, opts, flagSupplied, isSignalCatched, now, sleepUntil,
                   ctxTimeoutDeadline, tCatched, ctxBaseRequest, cancelLog, srv,
                   inShutdown, listener, chServeIsDone, shutdownCalls,
                   closeCalls, conns, hist>>

\* server.Shutdown returned nil: return 0
Part004ReturnZero ==
    /\ pc = "shutdownOk"
    /\ ReturnPlain(0, "part_004:122", <<>>)
    /\ UNCHANGED <<program, opts, flagSupplied, isSignalCatched, now, sleepUntil,
                   ctxTimeoutDeadline, tCatched, ctxBaseRequest, cancelLog, srv,
                   inShutdown, listener, chServeIsDone, shutdownCalls,
                   closeCalls, conns, hist>>

(* ex0002/main.go, second file *)

\* the flag is stored and the select is left: no sleep comes before
\* ctxTimeout is made and server.Shutdown is called
Ex0002AfterSelect ==
    /\ pc = "wait"
    /\ pc' = "shutdown"
    /\ UNCHANGED <<program, opts, flagSupplied, isSignalCatched, trace, ret, retAt, now,
                   sleepUntil, ctxTimeoutDeadline, ctxSignalDone, notifying,
                   tCatched, ctxBaseRequest, cancelLog, srv, inShutdown, listener,
                   chServeIsDone, shutdownCalls, closeCalls, conns, hist>>

\* the sleep that follows cancelCtxBaseRequest() has returned: return 2,
\* without a call of server.Close
Ex0002ReturnTwo ==
    /\ pc = "close"
    /\ Return(2, "ex0002:257", <<>>)
    /\ UNCHANGED <<program, opts, flagSupplied, isSignalCatched, now, sleepUntil,
                   ctxTimeoutDeadline, tCatched, srv, inShutdown, listener,
                   chServeIsDone, shutdownCalls, closeCalls, conns, hist>>

(* part_002 and ex0002/main.go, first file *)

\* the goroutine: <-ctxSignal.Done() returns
GoSignal ==
    /\ pc = "awaitSignal"
    /\ ctxSignalDone
    /\ pc' = (IF program = "ex0002 env" THEN "stop" ELSE "shutdown")
    /\ trace' = Append(trace, "signal")
    /\ hist' = [hist EXCEPT !.busySinceSignal = ~Quiescent]
    /\ UNCHANGED <<program, opts, flagSupplied, isSignalCatched, ret, retAt, now,
                   sleepUntil, ctxTimeoutDeadline, ctxSignalDone, notifying,
                   tCatched, ctxBaseRequest, cancelLog, srv, inShutdown, listener,
                   chServeIsDone, shutdownCalls, closeCalls, conns>>

\* the goroutine of ex0002: stop()
GoStop ==
    /\ pc = "stop"
    /\ notifying' = FALSE
    /\ pc' = "shutdown"
    /\ trace' = Append(trace, "stop")
    /\ UNCHANGED <<program, opts, flagSupplied, isSignalCatched, ret, retAt, now,
                   sleepUntil, ctxTimeoutDeadline, ctxSignalDone, tCatched,
                   ctxBaseRequest, cancelLog, srv, inShutdown, listener,
                   chServeIsDone, shutdownCalls, closeCalls, conns, hist>>

\* a return of the control path, and the deferred stop()
MainReturn(code, at) ==
    /\ ret' = <<code>>
    /\ retAt' = at
    /\ srv' = "returned"
    /\ notifying' = FALSE
    /\ ctxSignalDone' = TRUE

\* what the control path does with a non-benign error of ListenAndServe:
\* ex0002 returns 1, part_002 prints it and goes on to the receive
AfterServeError == IF program = "ex0002 env" THEN "return" ELSE "recv"

\* the control path: server.ListenAndServe() returns, ErrServerClosed once
\* server.Shutdown was called and the error of the listener before
MainListenAndServeReturns(err) ==
    /\ srv = "ListenAndServe"
    /\ inShutdown <=> err = "ErrServerClosed"
    /\ listener' = "closed"
    /\ IF err # "ErrServerClosed" /\ AfterServeError = "return"
       THEN /\ MainReturn(1, "ex0002:92")
            /\ trace' = trace \o <<"serve_err", "return">>
       ELSE /\ srv' = "recv"
            /\ trace' = (IF err # "ErrServerClosed"
                         THEN Append(trace, "serve_err") ELSE trace)
            /\ UNCHANGED <<ret, retAt, notifying, ctxSignalDone>>
    /\ UNCHANGED <<program, opts, flagSupplied, isSignalCatched, pc, now, sleepUntil,
                   ctxTimeoutDeadline, tCatched, ctxBaseRequest, cancelLog,
                   inShutdown, chServeIsDone, shutdownCalls, closeCalls, conns,
                   hist>>

\* server.Shutdown returned an error: the goroutine sends it on
\* chGracefulShutdown, the control path receives it and returns 2
RecvErr ==
    /\ pc = "shutdownErr"
    /\ srv = "recv"
    /\ pc' = "closeCh"
    /\ MainReturn(2, "L99")
    /\ trace' = Append(trace, "return")
    /\ UNCHANGED <<program, opts, flagSupplied, isSignalCatched, now, sleepUntil,
                   ctxTimeoutDeadline, tCatched, ctxBaseRequest, cancelLog,
                   inShutdown, listener, chServeIsDone, shutdownCalls,
                   closeCalls, conns, hist>>

\* the goroutine: close(chGracefulShutdown)
GoClose ==
    /\ pc \in {"shutdownOk", "closeCh"}
    /\ pc' = "closedCh"
    /\ UNCHANGED <<program, opts, flagSupplied, isSignalCatched, trace, ret, retAt, now,
                   sleepUntil, ctxTimeoutDeadline, ctxSignalDone, notifying,
                   tCatched, ctxBaseRequest, cancelLog, srv, inShutdown, listener,
                   chServeIsDone, shutdownCalls, closeCalls, conns, hist>>

\* faulty variant: the control path does not wait for the goroutine
RecvClosedWithoutWaiting ==
    /\ srv = "recv"
    /\ MainReturn(0, "L103")
    /\ trace' = Append(trace, "return")
    /\ UNCHANGED <<program, opts, flagSupplied, isSignalCatched, pc, now, sleepUntil,
                   ctxTimeoutDeadline, tCatched, ctxBaseRequest, cancelLog,
                   inShutdown, listener, chServeIsDone, shutdownCalls,
                   closeCalls, conns, hist>>

\* the control path receives from the closed chGracefulShutdown: return 0
RecvClosed ==
    /\ srv = "recv"
    /\ pc = "closedCh"
    /\ MainReturn(0, "L103")
    /\ trace' = Append(trace, "return")
    /\ UNCHANGED <<program, opts, flagSupplied, isSignalCatched, pc, now, sleepUntil,
                   ctxTimeoutDeadline, tCatched, ctxBaseRequest, cancelLog,
                   inShutdown, listener, chServeIsDone, shutdownCalls,
                   closeCalls, conns, hist>>

\* the goroutine has a step that takes no time
GoReady ==
    \/ pc = "awaitSignal" /\ ctxSignalDone
    \/ pc \in {"stop", "shutdown", "shutdownOk", "closeCh"}
    \/ pc = "draining" /\ (Quiescent \/ CtxTimeoutDone)
    \/ pc = "shutdownErr" /\ srv = "recv"

\* the control path has a step that takes no time
MainReady ==
    \/ srv = "ListenAndServe" /\ inShutdown
    \/ srv = "recv" /\ pc \in {"shutdownErr", "closedCh"}

\* a second passes while the control path has not returned
GoTick ==
    /\ ret = <<>>
    /\ ~GoReady
    /\ ~MainReady
    /\ ~HandlerReady
    /\ ctxSignalDone \/ now < MaxTime
    /\ now' = now + 1
    /\ hist' = IF pc = "draining"
               THEN [hist EXCEPT !.overrun = Overrun(now', ctxTimeoutDeadline)]
               ELSE hist
    /\ UNCHANGED <<program, opts, flagSupplied, isSignalCatched, ctl, ctxSignalDone,
                   notifying, ctxBaseRequest, srv, inShutdown, listener,
                   chServeIsDone, conns>>

ExampleRequests ==
    \/ \E c \in Conns, n \in (IF program = "part_002"
                              THEN FixedSleeps ELSE (0 - 1)..MaxSleep) :
           AcceptTimeSleep(c, n)
    \/ \E c \in Conns : ServeExampleHealth(c)
    \/ \E c \in Conns : WriteOk(c)

\* server.Shutdown, the same in the four programs
ShutdownCall ==
    \/ CallShutdown
    \/ ShutdownPoll
    \/ ShutdownCtxDone

\* the steps of the four programs and of their clock
ExamplesSteps ==
    \/ program = "part_004" /\ Part004SelectErr
    \/ program = "part_004" /\ Part004SelectClosed
    \/ program = "part_004" /\ Part004Stop
    \/ program = "part_004" /\ Part004ReturnTwo
    \/ program = "part_004" /\ Part004ReturnZero
    \/ program = "ex0002 flag" /\ SelectServeErr
    \/ program = "ex0002 flag" /\ SelectServeClosed
    \/ program = "ex0002 flag" /\ Stop
    \/ program = "ex0002 flag" /\ StoreFlag
    \/ program = "ex0002 flag" /\ Ex0002AfterSelect
    \/ program = "ex0002 flag" /\ ReturnGracefully
    \/ program = "ex0002 flag" /\ CancelRequests
    \/ program = "ex0002 flag" /\ BeginForceSleep
    \/ program = "ex0002 flag" /\ EndForceSleep
    \/ program = "ex0002 flag" /\ Ex0002ReturnTwo
    \/ program \in SelectPrograms /\ SelectSignal
    \/ program \in SelectPrograms /\ CloseChServeIsDone
    \/ program \in SelectPrograms /\ Tick
    \/ \E err \in {"ErrServerClosed", "accept error"} :
           program \in SelectPrograms /\ ListenAndServeReturns(err)
    \/ program \in GoroutinePrograms /\ GoSignal
    \/ program = "ex0002 env" /\ GoStop
    \/ \E err \in {"ErrServerClosed", "accept error"} :
           program \in GoroutinePrograms /\ MainListenAndServeReturns(err)
    \/ program \in GoroutinePrograms /\ RecvErr
    \/ program \in GoroutinePrograms /\ GoClose
    \/ program \in GoroutinePrograms /\ RecvClosed
    \/ program \in GoroutinePrograms /\ GoTick
    \/ ShutdownCall

ExamplesNext ==
    \/ ExamplesSteps
    \/ ExampleRequests
    \/ Signal
    \/ OsExit

ExamplesSpec == InitExamples /\ [][ExamplesNext]_vars

\* the scheduling the runtime guarantees, as in FairSpec
FairExamplesSpec ==
    /\ ExamplesSpec
    /\ WF_vars(ExamplesSteps)
    /\ WF_vars(\E c \in Conns : WriteOk(c))

-----------------------------------------------------------------------------
(* Properties *)

Triggered == \E i \in 1..Len(cancelLog) : cancelLog[i] = "L170"
Drain == opts.GracefulShutdownTimeoutSeconds
DrainStart == ctxTimeoutDeadline - Drain

\* C1: when a signal was observed and a request in flight still had work to do
\* as the drain timeout elapsed, server.Shutdown fails, cancelCtxBaseRequest is
\* called by the failure branch, and the function returns shutodownForcefully.
C1_OverrunIsForceful ==
    (Has("signal") /\ hist.overrun = "yes") =>
        /\ pc \in {"draining", "shutdownErr", "force", "forceCancelling", "close",
                   "closed", "done"}
        /\ pc \in {"force", "forceCancelling", "close", "closed", "done"} =>
               Triggered /\ ctxBaseRequest = "canceled"
        /\ pc = "done" => ret = <<shutodownForcefully>> /\ Has("shutdown_err")

C1_Witness ==
    /\ pc = "done"
    /\ Has("signal")
    /\ hist.overrun = "yes"
    /\ Drain > 0
    /\ ret = <<shutodownForcefully>>
    /\ \E c \in Conns : conns[c].kind = "sleep" /\ conns[c].resp = "unavailable"

\* C2: when a signal was observed and no request was in flight any more as the
\* drain timeout elapsed, the function returns shutodownGracefully and every
\* request of the run was answered "ok"; in a signalled run a handler sees its
\* context cancelled only after server.Shutdown has failed.
C2_InTimeIsGraceful ==
    /\ (pc = "done" /\ Has("signal") /\ hist.overrun = "no") =>
           /\ ret = <<shutodownGracefully>>
           /\ Has("shutdown_ok")
           /\ \A c \in Conns :
                  conns[c].kind \in {"sleep", "sleep_infinity"} => conns[c].resp = "ok"
    /\ (Has("signal") /\ \E c \in Conns :
                             conns[c].kind = "sleep" /\ conns[c].resp = "unavailable") =>
           Has("shutdown_err") /\ Has("cancel")

C2_Witness ==
    /\ pc = "done"
    /\ Has("signal")
    /\ hist.overrun = "no"
    /\ hist.busySinceSignal
    /\ now > DrainStart
    /\ now < ctxTimeoutDeadline
    /\ ret = <<shutodownGracefully>>
    /\ \E c \in Conns : conns[c].kind = "sleep" /\ conns[c].resp = "ok"

\* C3: whatever the three durations, when no request is in flight as the
\* signal is observed and none arrives later, the control path sleeps, calls
\* server.Shutdown once, which succeeds, and returns shutodownGracefully; the
\* failure branch does not cancel the base context and server.Close is not
\* called.
C3_IdleIsGraceful ==
    (pc = "done" /\ Has("signal") /\ ~hist.busySinceSignal) =>
        /\ trace = <<"signal", "stop", "store", "sleep_wait", "shutdown",
                     "shutdown_ok", "return">>
        /\ ret = <<shutodownGracefully>>
        /\ ~Triggered
        /\ closeCalls = 0
        /\ shutdownCalls = 1

C3_Witness ==
    /\ pc = "done"
    /\ Has("signal")
    /\ ~hist.busySinceSignal
    /\ Drain <= 0
    /\ \E c \in Conns : conns[c].st = "closed"
    /\ ret = <<shutodownGracefully>>

Pos(e) == CHOOSE i \in 1..Len(trace) : trace[i] = e

\* C5: when server.Shutdown has failed, server.Close is called exactly once:
\* after cancelCtxBaseRequest and after the whole second sleep, and before the
\* return of shutodownForcefully.
C5_CloseOnceAfterGrace ==
    /\ closeCalls <= 1
    /\ pc = "closed" => closeCalls = 1 /\ now >= sleepUntil
    /\ (pc = "done" /\ Has("shutdown_err")) =>
           /\ closeCalls = 1
           /\ Has("cancel") /\ Has("sleep_force") /\ Has("close")
           /\ Pos("shutdown_err") < Pos("cancel")
           /\ Pos("cancel") < Pos("sleep_force")
           /\ Pos("sleep_force") < Pos("close")
           /\ Pos("close") < Pos("return")
           /\ Triggered
           /\ now >= sleepUntil
           /\ ret = <<shutodownForcefully>>

C5_Witness ==
    /\ pc = "done"
    /\ Has("shutdown_err")
    /\ closeCalls = 1
    /\ opts.ForcefullyRequestCancellationTimeoutSeconds > 0
    /\ now = sleepUntil

\* C6: the flag is stored after the signal branch of the select is taken and
\* before the first sleep begins, at the instant ctxSignal became done (clock
\* 0) whatever the options: it is true wherever the control path is from that sleep on.
C6_FlagBeforeDelay ==
    /\ (flagSupplied /\ Has("sleep_wait")) => isSignalCatched
    /\ (flagSupplied /\ pc \in {"wait", "delaying", "shutdown", "draining",
                                "shutdownOk", "shutdownErr", "force",
                                "forceCancelling", "close", "closed"}) =>
           isSignalCatched
    /\ isSignalCatched =>
           /\ Has("signal") /\ Has("stop") /\ Has("store")
           /\ tCatched = 0

C6_Witness ==
    /\ pc = "delaying"
    /\ flagSupplied
    /\ isSignalCatched
    /\ opts.WaitSecondsUntilGracefulShutdownIsStarted > 0
    /\ now < sleepUntil

\* the outcome of the run, from what the control path did
Outcome ==
    IF Has("serve_err") THEN "ListenerFailure"
    ELSE IF Has("serve_closed") \/ Has("shutdown_ok") THEN "Graceful"
    ELSE IF Has("shutdown_err") THEN "Forceful"
    ELSE "none"

\* C7: the function returns 0 exactly when the outcome is Graceful and 1
\* exactly when it is Forceful or ListenerFailure, and nothing else.
C7_ExitCodes ==
    /\ pc # "done" => ret = <<>>
    /\ pc = "done" =>
           /\ ret \in {<<0>>, <<1>>}
           /\ ret = <<0>> <=> Outcome = "Graceful"
           /\ ret = <<1>> <=> Outcome \in {"Forceful", "ListenerFailure"}

C7_Witness ==
    /\ pc = "done"
    /\ Outcome = "Forceful"
    /\ ret = <<1>>

\* C8: when the select receives a non-nil error from chServeIsDone, the
\* function returns 1 at once: the flag is not stored, no sleep is begun,
\* server.Shutdown and server.Close are not called.
C8_ListenerFailure ==
    Has("serve_err") =>
        /\ pc = "done"
        /\ trace = <<"serve_err", "return">>
        /\ ret = <<1>>
        /\ ~isSignalCatched
        /\ sleepUntil = 0
        /\ shutdownCalls = 0
        /\ closeCalls = 0
        /\ ~Triggered

C8_Witness ==
    /\ Has("serve_err")
    /\ ret = <<1>>
    /\ flagSupplied
    /\ \E c \in Conns : conns[c].st # "free"

\* C9: when the select finds chServeIsDone closed (the server stopped without
\* a non-benign error), the function returns 0 at once: no sleep is begun,
\* server.Shutdown and server.Close are not called.
C9_ServeEnded ==
    Has("serve_closed") =>
        /\ pc = "done"
        /\ trace = <<"serve_closed", "return">>
        /\ ret = <<0>>
        /\ ~isSignalCatched
        /\ sleepUntil = 0
        /\ shutdownCalls = 0
        /\ closeCalls = 0
        /\ ~Triggered

C9_Witness ==
    /\ Has("serve_closed")
    /\ ret = <<0>>
    /\ srv = "exited"
    /\ chServeIsDone = "closed"

\* the phase a step of the control path enters
PhaseName(e) ==
    CASE e = "signal" -> "SignalReceived"
      [] e = "sleep_wait" -> "Delaying"
      [] e = "shutdown" -> "Draining"
      [] e = "shutdown_ok" -> "Completed"
      [] e = "cancel" -> "ForceCancelling"
      [] e = "close" -> "ForceClosed"
      [] OTHER -> "none"

EntersPhase(e) == PhaseName(e) # "none"

\* the phases the run has entered, in order
Phases ==
    LET f == SelectSeq(trace, EntersPhase)
    IN  [i \in 1..Len(f) |-> PhaseName(f[i])]

IsPrefix(s, t) == Len(s) <= Len(t) /\ \A i \in 1..Len(s) : s[i] = t[i]

GracefulPath == <<"SignalReceived", "Delaying", "Draining", "Completed">>
ForcefulPath == <<"SignalReceived", "Delaying", "Draining", "ForceCancelling",
                  "ForceClosed">>

\* C10: the phases of a run are a prefix of SignalReceived, Delaying, Draining,
\* then Completed or ForceCancelling, ForceClosed; server.Shutdown is called at
\* most once, so a failed drain is not tried again.
C10_PhaseOrder ==
    /\ IsPrefix(Phases, GracefulPath) \/ IsPrefix(Phases, ForcefulPath)
    /\ shutdownCalls <= 1
    /\ shutdownCalls = (IF Has("shutdown") THEN 1 ELSE 0)

C10_Witness ==
    /\ pc = "done"
    /\ Phases = ForcefulPath

\* the calls of cancelCtxBaseRequest made at call site l
CancelsAt(l) == Cardinality({i \in 1..Len(cancelLog) : cancelLog[i] = l})

\* C11 as stated: on a run that ends Graceful or ListenerFailure the base
\* context of the requests is never cancelled by the function, its deferred
\* calls included.
C11_NeverCancelledUnlessDrainFails ==
    (pc = "done" /\ Outcome \in {"Graceful", "ListenerFailure"}) =>
        /\ cancelLog = <<>>
        /\ ctxBaseRequest = "active"

\* C11, amended: the base context starts active and, once cancelled, stays
\* cancelled; until the function returns it is cancelled exactly when the
\* failure branch of server.Shutdown has called cancelCtxBaseRequest, which
\* happens at most once and only after server.Shutdown has failed; every
\* return, whatever the outcome, then runs the deferred cancelCtxBaseRequest
\* once, so the context is cancelled after the return of a Graceful or
\* ListenerFailure run too.
C11_CancelledByFailureOrReturn ==
    /\ [](/\ CancelsAt("L170") <= 1
          /\ Triggered <=> Has("cancel")
          /\ Has("cancel") => Has("shutdown_err")
          /\ pc # "done" => /\ CancelsAt("defer") = 0
                            /\ ctxBaseRequest = "canceled" <=> Triggered
          /\ pc = "done" => /\ CancelsAt("defer") = 1
                            /\ cancelLog[Len(cancelLog)] = "defer"
                            /\ ctxBaseRequest = "canceled"
                            /\ Triggered <=> Outcome = "Forceful")
    /\ [][ctxBaseRequest = "canceled" => ctxBaseRequest' = "canceled"]_vars

C11_Witness ==
    /\ pc = "done"
    /\ Has("signal")
    /\ Outcome = "Graceful"
    /\ cancelLog = <<"defer">>
    /\ ctxBaseRequest = "canceled"

\* the step is one of a request handler: a connection was accepted and its
\* request dispatched, or a handler wrote its response and returned
HandlerStep ==
    \E c \in Conns :
        /\ conns'[c].st # conns[c].st
        /\ conns'[c].st \in {"active", "idle"}

\* the stores to isSignalCatched so far
Stores == Cardinality({i \in 1..Len(trace) : trace[i] = "store"})

\* C12: the flag is false until the control path stores true to it, which it
\* does at most once, after the signal branch of the select; it never goes
\* back to false; no step of a request handler (GET /health, GET /sleep,
\* GET /sleep_infinity) changes the flag or cancels the base context.
C12_FlagWrittenOnceByControl ==
    /\ [](/\ Stores <= 1
          /\ isSignalCatched => (flagSupplied /\ Stores = 1 /\ Has("signal")))
    /\ [][isSignalCatched => isSignalCatched']_vars
    /\ [][isSignalCatched' # isSignalCatched =>
              pc = "store" /\ pc' = "wait" /\ Stores' = Stores + 1]_vars
    /\ [][HandlerStep =>
              UNCHANGED <<isSignalCatched, ctxBaseRequest, cancelLog>>]_vars

C12_Witness ==
    /\ pc = "done"
    /\ isSignalCatched
    /\ Stores = 1
    /\ ctxBaseRequest = "canceled"
    /\ \E c \in Conns : conns[c].kind = "health" /\ conns[c].resp = "unavailable"

\* the time a wait of d seconds takes: a time.Sleep or a context.WithTimeout
\* of a non-positive duration is over at once
Lasts(d) == IF d < 0 THEN 0 ELSE d

Wait == opts.WaitSecondsUntilGracefulShutdownIsStarted
Grace == opts.ForcefullyRequestCancellationTimeoutSeconds

\* C13: with the clock at 0 when the signal is observed, a signalled run is
\* never later than the sum of the three durations (a negative one counting
\* as zero), and it has returned by then; when server.Shutdown fails, the
\* function returns shutodownForcefully no later than the drain timeout plus
\* the grace period after server.Shutdown was called.
C13_BoundedResponse ==
    /\ Has("signal") => now <= Lasts(Wait) + Lasts(Drain) + Lasts(Grace)
    /\ Has("shutdown") => DrainStart <= Lasts(Wait)
    /\ Has("shutdown_err") =>
           /\ now <= DrainStart + Lasts(Drain) + Lasts(Grace)
           /\ pc = "done" => ret = <<shutodownForcefully>>

C13_Witness ==
    /\ pc = "done"
    /\ Has("shutdown_err")
    /\ ret = <<shutodownForcefully>>
    /\ Wait > 0 /\ Drain > 0 /\ Grace > 0
    /\ now = Wait + Drain + Grace

\* the step accepts a connection
AcceptStep == \E c \in Conns : conns[c].st = "free" /\ conns'[c].st # "free"

\* C14: from the call of server.Shutdown on the listener is closed and no
\* connection is accepted any more; in particular the listener is closed
\* when a signalled run has returned, gracefully or forcefully.
C14_NoAcceptAfterDrain ==
    /\ [](Has("shutdown") => listener = "closed" /\ inShutdown)
    /\ []((pc = "done" /\ Has("signal")) =>
              /\ listener = "closed"
              /\ Outcome \in {"Graceful", "Forceful"})
    /\ [][Has("shutdown") => ~AcceptStep]_vars
    /\ [][listener = "closed" => listener' = "closed" /\ ~AcceptStep]_vars

C14_Witness ==
    /\ pc = "done"
    /\ Has("shutdown")
    /\ listener = "closed"
    /\ srv = "exited"
    /\ ret = <<shutodownGracefully>>
    /\ Wait > 0
    /\ \E c \in Conns : conns[c].st = "free"

\* the step serves GET /health on connection c
HealthStep(c) == conns[c].st = "free" /\ conns'[c].kind = "health"

\* C15: GET /health answers "unavailable" when it is given the flag and
\* loads true from it, and "ok" when it loads false or is given no flag; so,
\* given the flag the control path stores to, it answers "ok" until the
\* signal is observed and "unavailable" to every request served from the
\* store on, the whole first sleep included.
C15_HealthFollowsFlag ==
    /\ [][\A c \in Conns : HealthStep(c) =>
              /\ (flagSupplied /\ isSignalCatched) => conns'[c].resp = "unavailable"
              /\ ~(flagSupplied /\ isSignalCatched) => conns'[c].resp = "ok"
              /\ (flagSupplied /\ pc \in {"wait", "delaying", "shutdown"}) =>
                     conns'[c].resp = "unavailable"
              /\ ~Has("signal") => conns'[c].resp = "ok"
              /\ conns'[c].st = "idle"]_vars
    /\ [](\A c \in Conns :
              (conns[c].kind = "health" /\ conns[c].resp = "unavailable") =>
                  flagSupplied /\ Has("store"))

C15_Witness ==
    /\ pc = "delaying"
    /\ now < sleepUntil
    /\ flagSupplied
    /\ isSignalCatched
    /\ \E c \in Conns : /\ conns[c].kind = "health"
                         /\ conns[c].resp = "unavailable"
                         /\ conns[c].st = "idle"

\* the step delivers one more signal
SignalAgainStep == hist'.second # hist.second

\* the times step e was executed
Times(e) == Cardinality({i \in 1..Len(trace) : trace[i] = e})

\* C16: stop() is called after the signal branch of the select and before the
\* first sleep begins, so from that sleep on the signals are not caught any
\* more: one delivered during the first sleep, the drain or the grace period
\* is left to its default disposition, and changes nothing of the control
\* path, the flag, the base context or the server; the signal branch, the
\* store of the flag and each phase are executed at most once.
C16_SecondSignalNotCaught ==
    /\ [](/\ Has("sleep_wait") => (Has("stop") /\ Pos("stop") < Pos("sleep_wait"))
          /\ Has("stop") => ~notifying
          /\ pc \in {"delaying", "shutdown", "draining", "shutdownOk",
                     "shutdownErr", "force", "forceCancelling", "close",
                     "closed"} => ~notifying
          /\ hist.second = "swallowed" => ~Has("sleep_wait") \/ Has("stop")
          /\ \A e \in {"signal", "stop", "store", "sleep_wait", "shutdown",
                        "cancel", "sleep_force", "close", "return"} : Times(e) <= 1
          /\ IsPrefix(Phases, GracefulPath) \/ IsPrefix(Phases, ForcefulPath))
    /\ [][SignalAgainStep =>
              /\ UNCHANGED <<program, opts, flagSupplied, isSignalCatched, ctl, now,
                             ctxSignalDone, notifying, ctxBaseRequest, srv,
                             inShutdown, listener, chServeIsDone, conns>>
              /\ Has("stop") => hist'.second = "default"
              /\ hist'.second = "swallowed" => pc \in {"select", "stop"}]_vars

C16_Witness ==
    /\ pc = "forceCancelling"
    /\ now < sleepUntil
    /\ hist.second = "default"
    /\ now > 0

\* C17: once server.Shutdown has failed it is not called or polled again:
\* the second sleep lasts the whole grace period whatever the handlers do,
\* no connection is inspected or closed during it, server.Close follows it,
\* and the function returns shutodownForcefully, also when every handler has
\* answered as soon as its context was cancelled.
C17_FixedGrace ==
    /\ [](Has("shutdown_err") =>
              /\ shutdownCalls = 1
              /\ ~Has("shutdown_ok")
              /\ pc \in {"shutdownErr", "force", "forceCancelling", "close",
                         "closed", "done"}
              /\ pc \in {"close", "closed", "done"} =>
                     /\ Has("sleep_force")
                     /\ now >= sleepUntil
                     /\ now >= ctxTimeoutDeadline + Lasts(Grace)
              /\ pc = "done" => (Has("close") /\ closeCalls = 1 /\
                                 ret = <<shutodownForcefully>>))
    /\ [][pc = "forceCancelling" =>
              /\ pc' \in {"forceCancelling", "close"}
              /\ pc' = "close" => now >= sleepUntil
              /\ \A c \in Conns : conns'[c].st = "closed" => conns[c].st = "closed"]_vars

C17_Witness ==
    /\ pc = "done"
    /\ ret = <<shutodownForcefully>>
    /\ Grace > 0
    /\ now = ctxTimeoutDeadline + Grace
    /\ closeCalls = 1
    /\ \A c \in Conns : conns[c].kind = "sleep" /\ conns[c].resp = "unavailable"

\* both cases of the select are ready
RaceState == pc = "select" /\ ctxSignalDone /\ ServeEndReady

\* C18: when chServeIsDone and ctxSignal.Done() are both ready, the select can
\* take the one case or the other.  When it takes the case of chServeIsDone
\* the function returns at once, 1 with an error and 0 without; when it takes
\* the case of the signal the control path goes through the shutdown, with
\* the server already stopped, and returns 0 or 1.  No order leaves the
\* control path waiting for ever.
C18_EitherBranchTerminates ==
    /\ [](RaceState =>
              /\ ENABLED SelectSignal
              /\ ENABLED (SelectServeErr \/ SelectServeClosed))
    /\ RaceState ~> pc = "done"
    /\ (pc = "stop" /\ ServeEndReady) ~> pc = "done"
    /\ [][RaceState =>
              /\ pc' \in {"select", "stop", "done"}
              /\ pc' = "stop" => Has("signal")'
              /\ pc' = "done" =>
                     /\ ret' = (IF srv = "send" THEN <<1>> ELSE <<0>>)
                     /\ trace' \in {<<"serve_err", "return">>,
                                    <<"serve_closed", "return">>}]_vars
    /\ [](pc = "done" => ret \in {<<0>>, <<1>>})

C18_Witness ==
    /\ RaceState
    /\ srv = "send"
    /\ flagSupplied
    /\ \E c \in Conns : Active(c)

\* what a run shows when the first sleep (w), the drain timeout (d) or the
\* grace period (g) takes no time: server.Shutdown is called at the instant
\* of the signal (w); it returns at the instant it is called, nil when no
\* request is in flight then, and an error, followed by the cancellation and
\* server.Close, when one that still has work to do is (d); server.Close is
\* called at the instant server.Shutdown fails (g).  The phases are the same
\* in any case.
NoWait(w, d, g) ==
    /\ (pc = "done" /\ Has("signal")) =>
           /\ Phases \in {GracefulPath, ForcefulPath}
           /\ Has("sleep_wait")
           /\ Phases = ForcefulPath => Has("sleep_force")
    /\ (w /\ Has("shutdown")) => DrainStart = 0
    /\ (d /\ Has("shutdown")) =>
           /\ pc \in {"draining", "shutdownOk", "shutdownErr"} => now = DrainStart
           /\ hist.overrun = "no" => ~Has("shutdown_err")
           /\ hist.overrun = "yes" => ~Has("shutdown_ok")
           /\ pc = "done" =>
                  /\ hist.overrun = "no" =>
                         /\ ret = <<shutodownGracefully>>
                         /\ now = DrainStart
                         /\ ~Triggered /\ closeCalls = 0
                  /\ hist.overrun = "yes" =>
                         /\ ret = <<shutodownForcefully>>
                         /\ now = DrainStart + Lasts(Grace)
                         /\ Triggered /\ closeCalls = 1
    /\ (g /\ Has("shutdown_err")) => now = DrainStart + Lasts(Drain)

\* C19: a duration of zero is accepted and its phase is still executed, in
\* the same order, without any wait: the outcome is Graceful when no request
\* is in flight as server.Shutdown is called with a timeout of zero, and
\* Forceful, with the cancellation and server.Close, when one that still has
\* work to do is.
C19_ZeroDurations == NoWait(Wait = 0, Drain = 0, Grace = 0)

C19_Witness ==
    /\ pc = "done"
    /\ Wait = 0 /\ Drain = 0 /\ Grace = 0
    /\ hist.overrun = "yes"
    /\ ret = <<shutodownForcefully>>
    /\ Phases = ForcefulPath
    /\ now = 0

\* C20: a negative duration is accepted like any other and the run shows
\* what it shows with zero: the sleep of a negative duration returns at once,
\* a context with a negative timeout is done at once, and the phases, the
\* cancellation, the store of the flag and the exit code are those of C19.
C20_NegativeAsZero ==
    /\ NoWait(Wait < 0, Drain < 0, Grace < 0)
    /\ (pc = "delaying" /\ Wait < 0) => (now = 0 /\ ENABLED EndWait)
    /\ (pc = "draining" /\ Drain < 0) => (now = DrainStart /\ CtxTimeoutDone)
    /\ (pc = "forceCancelling" /\ Grace < 0) =>
           (now = DrainStart + Lasts(Drain) /\ ENABLED EndForceSleep)
    /\ (Has("sleep_wait") /\ flagSupplied) => isSignalCatched
    /\ pc = "done" => ret \in {<<0>>, <<1>>} /\ Len(trace) >= 2

C20_Witness ==
    /\ pc = "done"
    /\ Wait < 0 /\ Drain < 0 /\ Grace < 0
    /\ hist.overrun = "yes"
    /\ ret = <<shutodownForcefully>>
    /\ Phases = ForcefulPath
    /\ now = 0

\* the step ends the handler of GET /sleep on connection c
SleepReturns(c) == conns[c].kind = "sleep" /\ Active(c) /\ ~Active(c)'

\* C24: the handler of GET /sleep leaves its select with the timer only when
\* the duration has elapsed, and then answers "ok"; it leaves it with the
\* cancellation only when its context is done, and then answers with an error
\* instead of "ok"; so it answers with the error when the cancellation comes
\* before the duration has elapsed, and "ok" when the duration elapses with
\* the context not cancelled.  A request is answered once: a response that
\* was written is never replaced.
C24_SleepOkOrError ==
    /\ [][\A c \in Conns : SleepReturns(c) =>
              /\ conns'[c].resp \in {"ok", "unavailable", "none"}
              /\ conns'[c].resp = "ok" => now >= conns[c].doneAt
              /\ conns'[c].resp = "unavailable" => RequestContextDone
              /\ conns'[c].resp = "none" => conns'[c].st = "closed"
              /\ (now < conns[c].doneAt /\ conns'[c].st = "idle") =>
                     conns'[c].resp = "unavailable"
              /\ (~RequestContextDone /\ conns'[c].st = "idle") =>
                     conns'[c].resp = "ok"]_vars
    /\ [][\A c \in Conns : conns[c].resp # "none" => conns'[c].resp = conns[c].resp]_vars
    /\ [](\A c \in Conns :
              (Active(c) /\ conns[c].kind = "sleep") =>
                  /\ conns[c].resp = "none"
                  /\ RequestContextDone <=> ENABLED SleepCancelled(c)
                  /\ now >= conns[c].doneAt <=> ENABLED WriteOk(c))

C24_Witness ==
    /\ pc = "forceCancelling"
    /\ now < sleepUntil
    /\ Drain > 0
    /\ \E c \in Conns : /\ conns[c].kind = "sleep"
                         /\ conns[c].st = "idle"
                         /\ conns[c].resp = "unavailable"

\* C29 as stated: the serving goroutine is never left blocked in its send on
\* chServeIsDone: when the function has returned, after which nothing receives
\* from the channel, the goroutine is not in the send.
C29_ServingTaskFinishes == pc = "done" => srv # "send"

\* C30: server.Close is called only by the failure branch of server.Shutdown:
\* a call of it follows a failed server.Shutdown of the same run, and a run
\* whose outcome is Graceful or ListenerFailure has not called it.
C30_CloseOnlyAfterFailedDrain ==
    /\ [](/\ (closeCalls > 0 \/ Has("close")) =>
                 /\ Has("shutdown_err")
                 /\ Outcome = "Forceful"
                 /\ Pos("shutdown_err") < Pos("close")
          /\ Outcome \in {"Graceful", "ListenerFailure", "none"} =>
                 closeCalls = 0 /\ ~Has("close"))
    /\ [][closeCalls' # closeCalls =>
              pc = "close" /\ Has("shutdown_err") /\ closeCalls' = 1]_vars

C30_Witness ==
    /\ pc = "done"
    /\ Outcome = "Graceful"
    /\ Has("signal")
    /\ hist.busySinceSignal
    /\ closeCalls = 0
    /\ now > DrainStart
    /\ \E c \in Conns : conns[c].resp = "ok"

\* the step dispatches a request on connection c, which was accepted before
DispatchStep(c) == conns[c].st = "new" /\ Active(c)'

\* C23: the base context, once cancelled, stays cancelled; every request
\* context is the one base context, so a handler of GET /sleep that is running
\* while it is cancelled finds its context done, whenever it was dispatched;
\* a request dispatched after cancelCtxBaseRequest was called has a context
\* that is done from the start, and its handler, with time left to sleep,
\* answers with the error.
C23_CancellationVisible ==
    /\ [][ctxBaseRequest # "active" =>
              ctxBaseRequest' = "canceled" /\ cancelLog' # <<>>]_vars
    /\ [](\A c \in Conns :
              (Active(c) /\ conns[c].kind = "sleep" /\ cancelLog # <<>>) =>
                  /\ RequestContextDone
                  /\ ENABLED SleepCancelled(c)
                  /\ HandlerReady)
    /\ [][\A c \in Conns :
              (DispatchStep(c) /\ cancelLog # <<>>) =>
                  /\ RequestContextDone'
                  /\ HandlerReady'
                  /\ UNCHANGED <<ctxBaseRequest, cancelLog>>]_vars
    /\ [][\A c \in Conns :
              (SleepReturns(c) /\ cancelLog # <<>> /\ now < conns[c].doneAt) =>
                  \/ conns'[c].resp = "unavailable"
                  \/ conns'[c].st = "closed"]_vars

C23_Witness ==
    /\ pc = "forceCancelling"
    /\ Triggered
    /\ Drain >= 0
    /\ now > ctxTimeoutDeadline
    /\ \E c \in Conns : /\ Active(c)
                         /\ conns[c].kind = "sleep"
                         /\ now < conns[c].doneAt

\* when server.Shutdown fails, if it does
FailedAt == DrainStart + Lasts(Drain)

\* C21: in the examples server.Shutdown is called at the instant the signal
\* is observed, so from then on the listener is closed and a new connection,
\* later than the signal, is not accepted; when the requests in flight have
\* all finished before the timeout elapses, each of them was answered "ok"
\* and the function returns 0; and a signalled run does return.
C21_DrainAtOnce ==
    /\ []((Has("shutdown") /\ ~Has("serve_err")) => DrainStart = 0)
    /\ [](Has("shutdown") => listener = "closed" /\ inShutdown)
    /\ [][(Has("shutdown") \/ (Has("signal") /\ now > 0)) => ~AcceptStep]_vars
    /\ []((ret # <<>> /\ Has("signal") /\ ~Has("serve_err") /\ hist.overrun = "no") =>
              /\ ret = <<0>>
              /\ Has("shutdown_ok")
              /\ \A c \in Conns :
                     conns[c].kind = "time_sleep" => conns[c].resp = "ok")
    /\ Has("signal") ~> ret # <<>>

C21_Witness ==
    /\ program = "part_004"
    /\ ret = <<0>>
    /\ Has("signal")
    /\ hist.busySinceSignal
    /\ now > 0
    /\ now < ctxTimeoutDeadline
    /\ \E c \in Conns : conns[c].kind = "time_sleep" /\ conns[c].resp = "ok"

\* when the process ends after a failed server.Shutdown: at once, and in
\* "ex0002 flag" after the sleep that follows cancelCtxBaseRequest()
ExitAt == FailedAt + (IF program = "ex0002 flag" THEN Lasts(Grace) ELSE 0)

\* C22 as stated: when a request in flight still has work to do as the
\* timeout of server.Shutdown elapses, the function returns 2 and the request
\* is never answered (not even before the instant the process ends).
C22_OverrunNeverAnswered ==
    /\ []((hist.overrun = "yes" /\ ~Has("serve_err") /\ ret # <<>>) => ret = <<2>>)
    /\ [][\A c \in Conns :
              (/\ Has("shutdown_err")
               /\ Active(c)
               /\ conns[c].doneAt > FailedAt
               /\ now < ExitAt) =>
                  conns'[c].resp = "none"]_vars

\* C22, amended: when a request in flight still has work to do as the timeout
\* of server.Shutdown elapses, the function returns 2; a request that still
\* has work to do when the function returns is never answered, its
\* connection is reset as the process ends; in "ex0002 flag" the function
\* returns only after the sleep that follows the cancellation, and a request
\* that finishes during that sleep is answered "ok".
C22_OverrunExitsTwo ==
    /\ []((hist.overrun = "yes" /\ ~Has("serve_err") /\ ret # <<>>) => ret = <<2>>)
    /\ []((Has("shutdown_err") /\ ~Has("serve_err") /\ ret # <<>>) =>
              /\ ret = <<2>>
              /\ now = ExitAt)
    /\ [][\A c \in Conns :
              (Has("shutdown_err") /\ Active(c) /\ conns[c].doneAt > ExitAt) =>
                  /\ conns'[c].resp = "none"
                  /\ conns'[c].st \in {"active", "reset"}]_vars
    /\ [][\A c \in Conns :
              (Has("shutdown_err") /\ Active(c) /\ conns'[c].resp = "ok") =>
                  /\ conns[c].doneAt <= ExitAt
                  /\ conns[c].doneAt > FailedAt => program = "ex0002 flag"]_vars

C22_Witness ==
    /\ ret = <<2>>
    /\ hist.overrun = "yes"
    /\ Drain > 0
    /\ \E c \in Conns : /\ conns[c].kind = "time_sleep"
                         /\ conns[c].st = "reset"
                         /\ conns[c].resp = "none"

\* C25: in part_002 and "ex0002 env" the control path returns 0 or 2 only
\* after server.Shutdown has returned in the goroutine: 0 exactly when it
\* returned nil, 2 exactly when it returned an error; while server.Shutdown
\* has not been called or is waiting, the control path, back from
\* ListenAndServe, waits in its receive.
C25_ExitAfterDrain ==
    program \in GoroutinePrograms =>
        /\ ret \in {<<>>, <<0>>, <<1>>, <<2>>}
        /\ ret \in {<<0>>, <<2>>} =>
               /\ pc \in {"closeCh", "closedCh"}
               /\ shutdownCalls = 1
               /\ srv = "returned"
               /\ ret = <<0>> <=> Has("shutdown_ok")
               /\ ret = <<2>> <=> Has("shutdown_err")
        /\ ret = <<1>> => (program = "ex0002 env" /\ Has("serve_err"))
        /\ pc \in {"awaitSignal", "stop", "shutdown", "draining"} =>
               ret \notin {<<0>>, <<2>>}
        /\ (pc = "draining" /\ ~Has("serve_err")) => ret = <<>>

C25_Witness ==
    /\ program \in GoroutinePrograms
    /\ pc = "draining"
    /\ srv = "recv"
    /\ ret = <<>>
    /\ now > DrainStart
    /\ ~Has("serve_err")

\* C26 as stated: in part_002, when ListenAndServe has returned a non-benign
\* error, the function does not wait, and it does not return 0.
C26_ListenFailureEndsRun ==
    (program = "part_002" /\ Has("serve_err")) =>
        /\ ret # <<0>>
        /\ ret = <<>> => MainReady

\* C27 as stated: in "ex0002 flag", when server.Shutdown has failed, the
\* function returns after cancelCtxBaseRequest(), the sleep, and a call of
\* server.Close.
C27_FailedDrainEndsWithClose ==
    (program = "ex0002 flag" /\ pc = "done" /\ Has("shutdown_err")) =>
        /\ Triggered
        /\ Has("sleep_force")
        /\ now >= sleepUntil
        /\ closeCalls = 1

\* C28 as stated: GET /health of gracefulshutdownexample.NewHandler(flag) is
\* answered 503 when the flag loads true, and 200 "ok" when it loads false.
C28_HealthStatusFollowsFlag ==
    [][\A c \in Conns :
           (program = "ex0002 flag" /\ HealthStep(c)) =>
               conns'[c].resp = (IF isSignalCatched THEN "unavailable" ELSE "ok")]_vars

\* the control path is between the store of the flag and the call of
\* server.Shutdown
Delaying == pc \in {"wait", "delaying", "shutdown"}

\* C31: between the store of the flag and the call of server.Shutdown the
\* control path leaves the listener alone: while the server is serving, the
\* listener is open and a connection that arrives is accepted and its
\* request dispatched, with a context that is not cancelled.  Such a request
\* is in flight like any other: server.Shutdown does not return nil while it
\* is running, its context is done once cancelCtxBaseRequest was called, and
\* after server.Close no request is running.
C31_AcceptedWhileDelaying ==
    /\ [](Delaying =>
              /\ ~inShutdown \/ srv # "ListenAndServe"
              /\ shutdownCalls = 0 /\ closeCalls = 0
              /\ ctxBaseRequest = "active"
              /\ srv = "ListenAndServe" =>
                     /\ listener = "open"
                     /\ \A c \in Conns :
                            NextConn(c) => /\ ENABLED AcceptSleep(c, MaxSleep)
                                           /\ ENABLED AcceptSleepInfinity(c)
                                           /\ ENABLED ServeHealth(c))
    /\ [][(Delaying /\ listener' # listener) =>
              (srv = "ListenAndServe" /\ srv' # srv) \/ Has("shutdown")']_vars
    /\ [][\A c \in Conns :
              (Delaying /\ conns[c].st = "free" /\ conns'[c].st # "free") =>
                  /\ conns'[c].st \in {"active", "idle"}
                  /\ conns'[c].kind = "health" => conns'[c].resp = HealthResponse
                  /\ Active(c)' => hist'.busySinceSignal /\ ~RequestContextDone']_vars
    /\ [](/\ pc = "shutdownOk" => Quiescent
          /\ (pc = "done" /\ Has("shutdown_ok")) =>
                 \A c \in Conns : conns[c].kind \in {"sleep", "sleep_infinity"} =>
                                      conns[c].resp = "ok"
          /\ Has("cancel") =>
                 \A c \in Conns : (Active(c) /\ conns[c].kind = "sleep") =>
                                      ENABLED SleepCancelled(c)
          /\ Has("close") => \A c \in Conns : ~Active(c))

C31_Witness ==
    /\ pc = "forceCancelling"
    /\ flagSupplied
    /\ isSignalCatched
    /\ Wait > 0
    /\ hist.busySinceSignal
    /\ \E c \in Conns : /\ Active(c)
                         /\ conns[c].kind = "sleep_infinity"
                         /\ conns[c].doneAt = Wait + SleepInfinitySeconds

====
